---------------------------- MODULE Spec2Model ----------------------------
(***************************************************************************)
(* The coffee-sales dashboard (src/dashboard.py) as a state machine.       *)
(*                                                                         *)
(* The script is re-executed from top to bottom on every interaction.  A   *)
(* state is what survives between two executions (the CSV file, the clock, *)
(* the load_data cache, the widgets' session state) together with what the *)
(* last execution computed and rendered (the window, the filtered frame,   *)
(* the aggregate tables, the outcome of every chart step).  An action is   *)
(* one interaction followed by the whole re-execution it triggers.         *)
(*                                                                         *)
(* A data frame is [cols, rows]: the set of its column names and the       *)
(* sequence of its rows; a row carries the CSV's fields, and a column that *)
(* the script derives by copying is read from the field it copies.         *)
(* Amounts are whole numbers (cents).                                      *)
(***************************************************************************)
EXTENDS Integers, Sequences, FiniteSets, TLC

(***************************************************************************)
(* Calendar dates: pd.Timestamp at midnight, as [year, month, day].        *)
(***************************************************************************)
D(y, m, d) ==
    [year |-> y, month |-> m, day |-> d]

\* Timestamp's ordinal: days since 1970-01-01 in the proleptic Gregorian calendar.
ToOrdinal(t) ==
    LET y   == IF t.month <= 2 THEN t.year - 1 ELSE t.year
        era == y \div 400
        yoe == y - era * 400
        mp  == IF t.month > 2 THEN t.month - 3 ELSE t.month + 9
        doy == (153 * mp + 2) \div 5 + t.day - 1
        doe == yoe * 365 + yoe \div 4 - yoe \div 100 + doy
    IN  era * 146097 + doe - 719468

\* The Timestamp of an ordinal.
FromOrdinal(n) ==
    LET z   == n + 719468
        era == z \div 146097
        doe == z - era * 146097
        yoe == (doe - doe \div 1460 + doe \div 36524 - doe \div 146096) \div 365
        doy == doe - (365 * yoe + yoe \div 4 - yoe \div 100)
        mp  == (5 * doy + 2) \div 153
        d   == doy - (153 * mp + 2) \div 5 + 1
        m   == IF mp < 10 THEN mp + 3 ELSE mp - 9
        y   == yoe + era * 400 + (IF m <= 2 THEN 1 ELSE 0)
    IN  D(y, m, d)

\* today - pd.Timedelta(days=n)
MinusDays(t, n) ==
    FromOrdinal(ToOrdinal(t) - n)

\* Timestamp comparison a <= b
DateLE(a, b) ==
    \/ a.year < b.year
    \/ a.year = b.year /\ a.month < b.month
    \/ a.year = b.year /\ a.month = b.month /\ a.day <= b.day

(***************************************************************************)
(* The inputs: the rows data/Coffe_sales.csv may hold, the days the clock  *)
(* may show, the days a user may try to pick in the date input.            *)
(***************************************************************************)
MaxRows == 2

Row(dt, wd, mn, h, tod, pay, coffee, city, money) ==
    [Date |-> dt, Weekday |-> wd, Month_name |-> mn, hour_of_day |-> h,
     Time_of_Day |-> tod, cash_type |-> pay, coffee_name |-> coffee,
     City |-> city, money |-> money]

\* Candidate rows of the file.  Rows 1 and 2 differ in their dates only among
\* the filtered columns, rows 1 and 3 tie on their amounts, row 3 carries short
\* weekday and month names and a time of day outside the four buckets, row 4 is
\* a sale of amount zero on the last day of a year, row 5 falls on a leap day.
Pool ==
    << Row(D(2025, 6, 10), "Tuesday", "June", 9, "Morning", "card", "Latte", "Lisboa", 5),
       Row(D(2025, 6, 15), "Sunday", "June", 14, "Morning", "card", "Latte", "Lisboa", 3),
       Row(D(2025, 4, 1), "Tue", "Apr", 20, "Midnight", "cash", "Espresso", "Porto", 5),
       Row(D(2024, 12, 31), "Tuesday", "December", 9, "Night", "cash", "Espresso", "Lisboa", 0),
       Row(D(2024, 2, 29), "Thursday", "February", 14, "Evening", "card", "Espresso", "Porto", 3) >>

RECURSIVE Pick(_, _)
\* The rows of Pool at the indices of S, in Pool's order.
Pick(S, i) ==
    IF i > Len(Pool) THEN << >>
    ELSE IF i \in S THEN << Pool[i] >> \o Pick(S, i + 1)
    ELSE Pick(S, i + 1)

\* The files: every non-empty choice of at most MaxRows rows of Pool.
Files ==
    { Pick(S, 1) : S \in { T \in SUBSET (1 .. Len(Pool)) :
                             Cardinality(T) >= 1 /\ Cardinality(T) <= MaxRows } }

\* The days datetime.now() may show, in increasing order.
Todays ==
    << D(2024, 3, 5), D(2025, 1, 3), D(2025, 6, 15), D(2025, 8, 31), D(2025, 11, 30) >>

\* The days a user may try to pick in the calendar of the date input.
CalendarDays ==
    { D(2024, 1, 1), D(2025, 4, 1), D(2025, 6, 10), D(2025, 12, 1) }

\* Value domains in the order a sort puts them (string order).
SortedCities == << "Lisboa", "Porto" >>
SortedProducts == << "Espresso", "Latte" >>
SortedPayments == << "card", "cash" >>
SortedTimes == << "Afternoon", "Evening", "Midnight", "Morning", "Night" >>
SortedHours == << 9, 14, 20 >>

Range(s) ==
    { s[i] : i \in DOMAIN s }

(***************************************************************************)
(* The canonical orders and the maps applied before grouping.              *)
(***************************************************************************)
time_order ==
    << "Morning", "Afternoon", "Evening", "Night" >>

day_order ==
    << "Monday", "Tuesday", "Wednesday", "Thursday", "Friday", "Saturday", "Sunday" >>

full_months ==
    << "January", "February", "March", "April", "May", "June", "July", "August",
       "September", "October", "November", "December" >>

short_months ==
    << "Jan", "Feb", "Mar", "Apr", "May", "Jun", "Jul", "Aug", "Sep", "Oct", "Nov", "Dec" >>

\* dict(zip(keys, values)) applied by Series.map: a value that is no key maps to NaN.
MapDict(keys, values, v) ==
    IF \E i \in DOMAIN keys : keys[i] = v
    THEN values[CHOOSE i \in DOMAIN keys : keys[i] = v]
    ELSE "NaN"

\* weekday_map = dict(zip(day_order, day_order))
weekday_map(v) ==
    MapDict(day_order, day_order, v)

\* month_map = dict(zip(full_months, short_months))
month_map(v) ==
    MapDict(full_months, short_months, v)

\* The weekday and month names in the order a sort puts them (string order).
SortedDays ==
    << "Friday", "Monday", "Saturday", "Sunday", "Thursday", "Tuesday", "Wednesday" >>

SortedShortMonths ==
    << "Apr", "Aug", "Dec", "Feb", "Jan", "Jul", "Jun", "Mar", "May", "Nov", "Oct", "Sep" >>

\* The (hour, City) pairs in sorted order.
SortedHourCity ==
    [ i \in 1 .. Len(SortedHours) * Len(SortedCities) |->
        << SortedHours[((i - 1) \div Len(SortedCities)) + 1],
           SortedCities[((i - 1) % Len(SortedCities)) + 1] >> ]

(***************************************************************************)
(* Data frames.                                                            *)
(***************************************************************************)
CsvColumns ==
    { "Date", "Weekday", "Month_name", "hour_of_day", "Time_of_Day",
      "cash_type", "coffee_name", "City", "money" }

\* data[col] of one row: a derived column holds the field it was copied from.
Col(r, col) ==
    CASE col = "City" -> r.City
      [] col = "product_line" -> r.coffee_name
      [] col = "time_of_day" -> r.Time_of_Day
      [] col = "cash_type" -> r.cash_type
      [] col = "hour" -> r.hour_of_day
      [] col = "Weekday" -> r.Weekday
      [] col = "Month_name" -> r.Month_name
      [] col = "month_year" -> << r.Date.year, r.Date.month >>
      [] col = "hour_City" -> << r.hour_of_day, r.City >>
      [] col = "Weekday_full" -> weekday_map(r.Weekday)
      [] col = "short_months" -> month_map(r.Month_name)
      [] col = "total_sales" -> r.money

\* The body of load_data: parse the file and add the derived columns.
load_data_body(f) ==
    [cols |-> CsvColumns \cup { "total_sales", "day_of_week", "month", "hour",
                                "time_of_day", "product_line", "month_year" },
     rows |-> f]


\* st.cache_data: the stored result of load_data, none before the first call.
\* The value is computed by the body on a miss and looked up on a hit.
cache_data(c, f) ==
    IF c = << >> THEN load_data_body(f) ELSE c[1]

\* (Variant: the cache hands out the stored object itself.)
StoredAfterEditShared(stored, edited) ==
    edited

\* What the cache holds of a frame after the script has edited, in place, the
\* frame a call returned: st.cache_data stores a serialised value and hands
\* every caller its own copy, so the stored frame is untouched.
StoredAfterEdit(stored, edited) ==
    stored

\* "Initial configuration": Date re-parsed, year, month_num, quarter added in place.
InitialConfiguration(frame) ==
    IF "Date" \in frame.cols
    THEN [frame EXCEPT !.cols = @ \cup { "year", "month_num", "quarter" }]
    ELSE frame

RECURSIVE MinDate(_)
\* data['Date'].min()
MinDate(rows) ==
    IF Len(rows) = 1 THEN rows[1].Date
    ELSE LET m == MinDate(Tail(rows))
         IN  IF DateLE(rows[1].Date, m) THEN rows[1].Date ELSE m

RECURSIVE MaxDate(_)
\* data['Date'].max()
MaxDate(rows) ==
    IF Len(rows) = 1 THEN rows[1].Date
    ELSE LET m == MaxDate(Tail(rows))
         IN  IF DateLE(m, rows[1].Date) THEN rows[1].Date ELSE m

(***************************************************************************)
(* The date window.                                                        *)
(***************************************************************************)
PresetOptions ==
    << "Custom", "Last 7 days", "Last 30 days", "This month", "This quarter",
       "This year", "Previous year" >>

\* index=5 of the selectbox
DefaultPresetIndex == 5

\* (Variant: the quarter's window starts at the quarter's last month.)
PresetWindowLastMonth(date_preset, today) ==
    CASE date_preset = "Last 7 days" ->
           [start_date |-> MinusDays(today, 7), end_date |-> today]
      [] date_preset = "Last 30 days" ->
           [start_date |-> MinusDays(today, 30), end_date |-> today]
      [] date_preset = "This month" ->
           [start_date |-> [today EXCEPT !.day = 1], end_date |-> today]
      [] date_preset = "This quarter" ->
           LET current_quarter == (today.month - 1) \div 3 + 1
           IN  [start_date |-> D(today.year, 3 * current_quarter, 1),
                end_date |-> today]
      [] date_preset = "This year" ->
           [start_date |-> D(today.year, 1, 1), end_date |-> today]
      [] date_preset = "Previous year" ->
           [start_date |-> D(today.year - 1, 1, 1),
            end_date |-> D(today.year - 1, 12, 31)]

\* The window of a preset other than "Custom", as [start_date, end_date].
PresetWindow(date_preset, today) ==
    CASE date_preset = "Last 7 days" ->
           [start_date |-> MinusDays(today, 7), end_date |-> today]
      [] date_preset = "Last 30 days" ->
           [start_date |-> MinusDays(today, 30), end_date |-> today]
      [] date_preset = "This month" ->
           [start_date |-> [today EXCEPT !.day = 1], end_date |-> today]
      [] date_preset = "This quarter" ->
           LET current_quarter == (today.month - 1) \div 3 + 1
           IN  [start_date |-> D(today.year, 3 * current_quarter - 2, 1),
                end_date |-> today]
      [] date_preset = "This year" ->
           [start_date |-> D(today.year, 1, 1), end_date |-> today]
      [] date_preset = "Previous year" ->
           [start_date |-> D(today.year - 1, 1, 1),
            end_date |-> D(today.year - 1, 12, 31)]

\* (Variant: the date input is given no min_value and max_value.)
DateInputAcceptsUnbounded(picked, min_date, max_date) ==
    /\ Len(picked) \in { 1, 2 }
    /\ Len(picked) = 2 => DateLE(picked[1], picked[2])

\* Whether st.date_input(min_value=min_date, max_value=max_date) takes a pick:
\* one day (a range half chosen) or two days in order, each within the bounds.
DateInputAccepts(picked, min_date, max_date) ==
    /\ Len(picked) \in { 1, 2 }
    /\ \A i \in DOMAIN picked :
         DateLE(min_date, picked[i]) /\ DateLE(picked[i], max_date)
    /\ Len(picked) = 2 => DateLE(picked[1], picked[2])

\* What st.date_input returns: the widget's session value, or value=(min_date,
\* max_date) when it has none (<< >>: the widget was not on the previous page).
DateInputValue(state, min_date, max_date) ==
    IF state = << >> THEN << min_date, max_date >> ELSE state

\* The "Custom" branch.
CustomWindow(date_range, min_date, max_date) ==
    IF Len(date_range) = 2
    THEN [start_date |-> date_range[1], end_date |-> date_range[2]]
    ELSE [start_date |-> min_date, end_date |-> max_date]

\* (Variant: the end of the window is exclusive.)
DateFilterExclusive(frame, start_date, end_date) ==
    [frame EXCEPT !.rows =
        SelectSeq(@, LAMBDA r : DateLE(start_date, r.Date) /\ r.Date # end_date
                                /\ DateLE(r.Date, end_date))]

\* data[(data['Date'] >= start_date) & (data['Date'] <= end_date)]
DateFilter(frame, start_date, end_date) ==
    [frame EXCEPT !.rows =
        SelectSeq(@, LAMBDA r : DateLE(start_date, r.Date) /\ DateLE(r.Date, end_date))]

(***************************************************************************)
(* The multiselect filters.                                                *)
(***************************************************************************)
\* data[col].unique()
Unique(frame, col) ==
    { Col(frame.rows[i], col) : i \in DOMAIN frame.rows }

\* A multiselect without session state.
NoState ==
    [set |-> FALSE, options |-> {}, value |-> {}]

\* What st.multiselect(options=..., default=options) returns.  The widget is
\* identified by its label, options and default: given the options it had on
\* the previous page it keeps the user's selection, given other options it is
\* a new widget and returns its default, every option.
Multiselect(state, options) ==
    IF state.set /\ state.options = options THEN state.value ELSE options

\* data[data[col].isin(selected)]
IsinFilter(frame, col, selected) ==
    [frame EXCEPT !.rows = SelectSeq(@, LAMBDA r : Col(r, col) \in selected)]

(***************************************************************************)
(* Aggregation.                                                            *)
(***************************************************************************)
RECURSIVE SumSales(_)
\* rows['total_sales'].sum()
SumSales(rows) ==
    IF rows = << >> THEN 0 ELSE rows[1].money + SumSales(Tail(rows))

\* One row of an aggregate table; na marks a total_sales of NaN.
Cell(k, v) ==
    [key |-> k, total_sales |-> v, na |-> FALSE]

NaNCell(k) ==
    [key |-> k, total_sales |-> 0, na |-> TRUE]

RECURSIVE GroupSum(_, _, _)
\* data.groupby(col)['total_sales'].sum().reset_index(): one row per value of the
\* column that occurs, in sorted order of the values (sortedKeys lists them).
GroupSum(rows, col, sortedKeys) ==
    IF sortedKeys = << >> THEN << >>
    ELSE LET k == Head(sortedKeys)
             g == SelectSeq(rows, LAMBDA r : Col(r, col) = k)
         IN  (IF g = << >> THEN << >> ELSE << Cell(k, SumSales(g)) >>)
             \o GroupSum(rows, col, Tail(sortedKeys))

RECURSIVE NanSum(_)
\* table['total_sales'].sum(): NaN is skipped.
NanSum(table) ==
    IF table = << >> THEN 0
    ELSE (IF table[1].na THEN 0 ELSE table[1].total_sales) + NanSum(Tail(table))


\* table.reindex(order): one row per label of order, NaN where the table has none;
\* a row of the table whose key is no label of order is left out.
Reindex(table, order) ==
    [ i \in DOMAIN order |->
        IF \E j \in DOMAIN table : table[j].key = order[i]
        THEN table[CHOOSE j \in DOMAIN table : table[j].key = order[i]]
        ELSE NaNCell(order[i]) ]

\* sort_values('total_sales', ascending=False): the orders of the table's rows in
\* which no total is followed by a larger one (the place of equal totals is the
\* sort's choice).
DescendingOrders(table) ==
    LET n     == Len(table)
        perms == { p \in [1 .. n -> 1 .. n] : \A i, j \in 1 .. n : i # j => p[i] # p[j] }
    IN  { [ i \in 1 .. n |-> table[p[i]] ] : p \in
            { q \in perms : \A i \in 1 .. n - 1 :
                table[q[i]].total_sales >= table[q[i + 1]].total_sales } }

\* (Variant: the table is left in the order groupby gives it.)
CategoricalUnsorted(table, categories) ==
    [ i \in DOMAIN table |->
        IF table[i].key \in Range(categories) THEN table[i]
        ELSE [table[i] EXCEPT !.key = "NaN"] ]

\* pd.Categorical(keys, categories=time_order, ordered=True), then
\* sort_values('time_of_day'): a key outside the categories becomes NaN, rows come
\* in category order and the NaN rows last.
CategoricalSort(table, categories) ==
    LET known == [ i \in DOMAIN categories |->
                     SelectSeq(table, LAMBDA c : c.key = categories[i]) ]
        Cat(i) == IF i \in DOMAIN categories THEN known[i] ELSE << >>
        other == SelectSeq(table, LAMBDA c : c.key \notin Range(categories))
    IN  Cat(1) \o Cat(2) \o Cat(3) \o Cat(4)
        \o [ i \in DOMAIN other |-> [other[i] EXCEPT !.key = "NaN"] ]

RECURSIVE SortedMonthYears(_)
\* The month_year labels ('YYYY-MM') of S in sorted order.
SortedMonthYears(S) ==
    IF S = {} THEN << >>
    ELSE LET m == CHOOSE a \in S : \A b \in S : a[1] * 12 + a[2] <= b[1] * 12 + b[2]
         IN  << m >> \o SortedMonthYears(S \ { m })

\* table['total_sales'].idxmax(): the first row holding the largest total.
IdxMax(table) ==
    CHOOSE i \in DOMAIN table :
        /\ \A j \in DOMAIN table : table[j].total_sales <= table[i].total_sales
        /\ \A j \in 1 .. i - 1 : table[j].total_sales < table[i].total_sales

(***************************************************************************)
(* The script, statement by statement.  Each step takes the script's       *)
(* environment e (a record of its variables so far) and returns it with    *)
(* the variables the step assigns.  w is the widgets' session state, t the *)
(* clock, c the cache (<< >> or << frame >>), f the file.                  *)
(*                                                                         *)
(* A chart step's outcome is "plotly_chart" (a figure is drawn), "info"    *)
(* (the no-data message is shown), "none" (nothing is shown) or            *)
(* "exception" (the step raises and the script stops there).               *)
(***************************************************************************)
\* data = load_data(), then the "Initial configuration" block.
LoadStep(e) ==
    LET stored == cache_data(e.c, e.f)
    IN  [ data |-> InitialConfiguration(stored),
          cache |-> StoredAfterEdit(stored, InitialConfiguration(stored)) ] @@ e

\* The window of the "Date filter with preset options" block.
WindowOf(w, t, lo, hi) ==
    IF w.date_preset = "Custom"
    THEN CustomWindow(DateInputValue(w.date_range, lo, hi), lo, hi)
    ELSE PresetWindow(w.date_preset, t)

\* The "Date filter with preset options" block; without a Date column it is
\* skipped whole and data stays as loaded.
DateStep(e) ==
    IF "Date" \in e.data.cols
    THEN LET lo  == MinDate(e.data.rows)
             hi  == MaxDate(e.data.rows)
             win == WindowOf(e.w, e.t, lo, hi)
         IN  [ min_date |-> lo, max_date |-> hi,
               date_preset |-> e.w.date_preset,
               date_range |-> IF e.w.date_preset = "Custom"
                              THEN DateInputValue(e.w.date_range, lo, hi)
                              ELSE << >>,
               today |-> e.t,
               start_date |-> win.start_date, end_date |-> win.end_date,
               data |-> DateFilter(e.data, win.start_date, win.end_date) ] @@ e
    ELSE [ min_date |-> e.t, max_date |-> e.t, date_preset |-> e.w.date_preset,
           date_range |-> << >>, today |-> e.t, start_date |-> e.t,
           end_date |-> e.t ] @@ e

\* One expander: the multiselect over the values left in data, then the filter.
SelectStep(frame, col, state) ==
    IF col \in frame.cols
    THEN LET options == Unique(frame, col)
         IN  [ options |-> options,
               selected |-> Multiselect(state, options),
               data |-> IsinFilter(frame, col, Multiselect(state, options)) ]
    ELSE [ options |-> {}, selected |-> {}, data |-> frame ]

CityStep(e) ==
    LET s == SelectStep(e.data, "City", e.w.cities)
    IN  [ city_options |-> s.options, cities |-> s.selected, data |-> s.data ] @@ e

ProductStep(e) ==
    LET s == SelectStep(e.data, "product_line", e.w.products)
    IN  [ product_options |-> s.options, products |-> s.selected,
          data |-> s.data ] @@ e

TimeStep(e) ==
    LET s == SelectStep(e.data, "time_of_day", e.w.times_of_day)
    IN  [ time_options |-> s.options, times_of_day |-> s.selected,
          data |-> s.data ] @@ e

PaymentStep(e) ==
    LET s == SelectStep(e.data, "cash_type", e.w.payment_methods)
    IN  [ payment_options |-> s.options, payment_methods |-> s.selected,
          data |-> s.data ] @@ e

\* "Key Metrics"
MetricsStep(e) ==
    [ total_sales |-> IF "total_sales" \in e.data.cols THEN SumSales(e.data.rows)
                      ELSE 0,
      total_orders |-> Len(e.data.rows) ] @@ e

\* "Sales by Coffee Type": the grouped table, still to be sorted.
ProductChartStep(e) ==
    IF { "product_line", "total_sales" } \subseteq e.data.cols
    THEN [ product_groups |-> GroupSum(e.data.rows, "product_line", SortedProducts),
           fig |-> "product", chart_product |-> "plotly_chart" ] @@ e
    ELSE [ product_groups |-> << >>, chart_product |-> "none" ] @@ e

\* "Sales by Hour of Day"
HourChartStep(e) ==
    IF { "hour", "total_sales", "City" } \subseteq e.data.cols
    THEN [ sales_by_hour_city |-> GroupSum(e.data.rows, "hour_City", SortedHourCity),
           fig |-> "hour", chart_hour |-> "plotly_chart" ] @@ e
    ELSE [ sales_by_hour_city |-> << >>, chart_hour |-> "none" ] @@ e

\* "Sales by Time of Day"
TodChartStep(e) ==
    IF { "time_of_day", "total_sales" } \subseteq e.data.cols
    THEN [ sales_by_tod |->
             CategoricalSort(GroupSum(e.data.rows, "time_of_day", SortedTimes),
                             time_order),
           fig |-> "tod", chart_tod |-> "plotly_chart" ] @@ e
    ELSE [ sales_by_tod |-> << >>, chart_tod |-> "none" ] @@ e

\* "Sales by Payment Method": fig is assigned under the column guard ...
PaymentFigStep(e) ==
    IF { "cash_type", "total_sales" } \subseteq e.data.cols
    THEN [ sales_by_payment |-> GroupSum(e.data.rows, "cash_type", SortedPayments),
           fig |-> "payment" ] @@ e
    ELSE [ sales_by_payment |-> << >> ] @@ e

\* ... but updated and drawn after it: without the guard the figure of an earlier
\* step is drawn again, and with no earlier figure the name fig is unbound.
PaymentDrawStep(e) ==
    IF e.fig = "unbound"
    THEN [ chart_payment |-> "exception", raised |-> TRUE ] @@ e
    ELSE [ chart_payment |-> "plotly_chart" ] @@ e

\* The weekday and month steps' check: the message when the table sums to zero
\* or is empty, the bar chart otherwise.
NoDataCheck(table) ==
    IF NanSum(table) = 0 \/ table = << >> THEN "info" ELSE "plotly_chart"

\* "Sales by Weekday"
WeekdayChartStep(e) ==
    IF ~e.raised /\ { "Weekday", "total_sales" } \subseteq e.data.cols
    THEN LET table == Reindex(GroupSum(e.data.rows, "Weekday_full", SortedDays),
                              day_order)
         IN  [ data |-> [e.data EXCEPT !.cols = @ \cup { "Weekday_full" }],
               sales_by_weekday |-> table,
               chart_weekday |-> NoDataCheck(table) ] @@ e
    ELSE [ sales_by_weekday |-> << >>, chart_weekday |-> "none" ] @@ e

\* "Sales by Month"
MonthChartStep(e) ==
    IF ~e.raised /\ { "Month_name", "total_sales" } \subseteq e.data.cols
    THEN LET table == Reindex(GroupSum(e.data.rows, "short_months", SortedShortMonths),
                              short_months)
         IN  [ data |-> [e.data EXCEPT !.cols = @ \cup { "short_months" }],
               sales_by_month |-> table,
               chart_month |-> NoDataCheck(table) ] @@ e
    ELSE [ sales_by_month |-> << >>, chart_month |-> "none" ] @@ e

\* "Daily trends"
DailyTrendStep(e) ==
    IF ~e.raised /\ { "order_date", "total_sales" } \subseteq e.data.cols
    THEN [ chart_daily |-> "plotly_chart" ] @@ e
    ELSE [ chart_daily |-> "none" ] @@ e

\* (Variant: the monthly trend is grouped from the filtered data.)
MonthlySourceFiltered(e) ==
    e.data

\* The frame the monthly trend is grouped from: load_data() called again.
MonthlySource(e) ==
    cache_data(<< e.cache >>, e.f)

\* "Monthly trends": idxmax raises on an empty table.
MonthlyTrendStep(e) ==
    IF ~e.raised /\ { "month_year", "total_sales" } \subseteq e.data.cols
    THEN LET table == GroupSum(MonthlySource(e).rows, "month_year",
                               SortedMonthYears(Unique(MonthlySource(e), "month_year")))
         IN  IF table = << >>
             THEN [ monthly_sales |-> table, max_month |-> << >>,
                    chart_monthly |-> "exception", raised |-> TRUE ] @@ e
             ELSE [ monthly_sales |-> table,
                    max_month |-> table[IdxMax(table)].key,
                    chart_monthly |-> "plotly_chart" ] @@ e
    ELSE [ monthly_sales |-> << >>, max_month |-> << >>,
           chart_monthly |-> "none" ] @@ e

\* One execution of the script, from top to bottom; at its start the name fig is
\* unbound and nothing has been raised.
Script(w, t, c, f) ==
    MonthlyTrendStep(DailyTrendStep(MonthChartStep(WeekdayChartStep(
    PaymentDrawStep(PaymentFigStep(TodChartStep(HourChartStep(ProductChartStep(
    MetricsStep(PaymentStep(TimeStep(ProductStep(CityStep(DateStep(LoadStep(
        [ w |-> w, t |-> t, c |-> c, f |-> f, fig |-> "unbound",
          raised |-> FALSE ]))))))))))))))))

\* The outcome of every chart step of an execution.
ChartsOf(r) ==
    [ product |-> r.chart_product, hour |-> r.chart_hour, tod |-> r.chart_tod,
      payment |-> r.chart_payment, payment_fig |-> r.fig,
      weekday |-> r.chart_weekday, month |-> r.chart_month,
      daily |-> r.chart_daily, monthly |-> r.chart_monthly ]

(***************************************************************************)
(* The state.                                                              *)
(***************************************************************************)
VARIABLES
    file,               \* the rows of data/Coffe_sales.csv
    now,                \* the day datetime.now() shows
    cache,              \* the frame st.cache_data holds for load_data
    date_preset,        \* the selectbox's value
    date_range,         \* the date input's value, << >> when it is not on the page
    cities, city_options,
    products, product_options,
    times_of_day, time_options,
    payment_methods, payment_options,
    min_date, max_date, today, start_date, end_date,
    data,               \* the filtered frame at the end of the script
    total_sales, total_orders,
    sales_by_product, sales_by_hour_city, sales_by_tod, sales_by_payment,
    sales_by_weekday, sales_by_month, monthly_sales, max_month,
    charts              \* the outcome of every chart step

vars ==
    << file, now, cache, date_preset, date_range, cities, city_options, products,
       product_options, times_of_day, time_options, payment_methods,
       payment_options, min_date, max_date, today, start_date, end_date, data,
       total_sales, total_orders, sales_by_product, sales_by_hour_city,
       sales_by_tod, sales_by_payment, sales_by_weekday, sales_by_month,
       monthly_sales, max_month, charts >>

\* The widgets' session state before the first execution.
FirstRun ==
    [ date_preset |-> PresetOptions[DefaultPresetIndex + 1], date_range |-> << >>,
      cities |-> NoState, products |-> NoState, times_of_day |-> NoState,
      payment_methods |-> NoState ]

\* The widgets' session state left by the last execution.
Session ==
    [ date_preset |-> date_preset, date_range |-> date_range,
      cities |-> [set |-> TRUE, options |-> city_options, value |-> cities],
      products |-> [set |-> TRUE, options |-> product_options, value |-> products],
      times_of_day |-> [set |-> TRUE, options |-> time_options, value |-> times_of_day],
      payment_methods |-> [set |-> TRUE, options |-> payment_options,
                           value |-> payment_methods] ]

\* The page after the first execution of the script.
Init ==
    /\ file \in Files
    /\ now \in Range(Todays)
    /\ \E r \in { Script(FirstRun, now, << >>, file) } :
           /\ cache = r.cache
           /\ date_preset = r.date_preset
           /\ date_range = r.date_range
           /\ cities = r.cities
           /\ city_options = r.city_options
           /\ products = r.products
           /\ product_options = r.product_options
           /\ times_of_day = r.times_of_day
           /\ time_options = r.time_options
           /\ payment_methods = r.payment_methods
           /\ payment_options = r.payment_options
           /\ min_date = r.min_date
           /\ max_date = r.max_date
           /\ today = r.today
           /\ start_date = r.start_date
           /\ end_date = r.end_date
           /\ data = r.data
           /\ total_sales = r.total_sales
           /\ total_orders = r.total_orders
           /\ sales_by_product \in DescendingOrders(r.product_groups)
           /\ sales_by_hour_city = r.sales_by_hour_city
           /\ sales_by_tod = r.sales_by_tod
           /\ sales_by_payment = r.sales_by_payment
           /\ sales_by_weekday = r.sales_by_weekday
           /\ sales_by_month = r.sales_by_month
           /\ monthly_sales = r.monthly_sales
           /\ max_month = r.max_month
           /\ charts = ChartsOf(r)

\* The script re-executed from session state w.
Rerun(w) ==
    \E r \in { Script(w, now, << cache >>, file) } :
        /\ cache' = r.cache
        /\ date_preset' = r.date_preset
        /\ date_range' = r.date_range
        /\ cities' = r.cities
        /\ city_options' = r.city_options
        /\ products' = r.products
        /\ product_options' = r.product_options
        /\ times_of_day' = r.times_of_day
        /\ time_options' = r.time_options
        /\ payment_methods' = r.payment_methods
        /\ payment_options' = r.payment_options
        /\ min_date' = r.min_date
        /\ max_date' = r.max_date
        /\ today' = r.today
        /\ start_date' = r.start_date
        /\ end_date' = r.end_date
        /\ data' = r.data
        /\ total_sales' = r.total_sales
        /\ total_orders' = r.total_orders
        /\ sales_by_product' \in DescendingOrders(r.product_groups)
        /\ sales_by_hour_city' = r.sales_by_hour_city
        /\ sales_by_tod' = r.sales_by_tod
        /\ sales_by_payment' = r.sales_by_payment
        /\ sales_by_weekday' = r.sales_by_weekday
        /\ sales_by_month' = r.sales_by_month
        /\ monthly_sales' = r.monthly_sales
        /\ max_month' = r.max_month
        /\ charts' = ChartsOf(r)
        /\ UNCHANGED << file, now >>

(***************************************************************************)
(* The interactions.                                                       *)
(***************************************************************************)
\* The user chooses another entry of "Quick Period".
SelectPreset ==
    \E p \in Range(PresetOptions) :
        /\ p # date_preset
        /\ Rerun([Session EXCEPT !.date_preset = p])

\* The user picks one day or two days in "Select period" (shown under "Custom").
PickDateRange ==
    /\ date_preset = "Custom"
    /\ \E picked \in { << a >> : a \in CalendarDays }
                     \cup { << a, b >> : a \in CalendarDays, b \in CalendarDays } :
        /\ DateInputAccepts(picked, min_date, max_date)
        /\ Rerun([Session EXCEPT !.date_range = picked])

\* The user changes the selection of "Cities".
SelectCities ==
    \E S \in SUBSET city_options :
        /\ S # cities
        /\ Rerun([Session EXCEPT !.cities.value = S])

\* The user changes the selection of "Product Lines".
SelectProducts ==
    \E S \in SUBSET product_options :
        /\ S # products
        /\ Rerun([Session EXCEPT !.products.value = S])

\* The user changes the selection of "Time Periods".
SelectTimesOfDay ==
    \E S \in SUBSET time_options :
        /\ S # times_of_day
        /\ Rerun([Session EXCEPT !.times_of_day.value = S])

\* The user changes the selection of "Payment Methods".
SelectPaymentMethods ==
    \E S \in SUBSET payment_options :
        /\ S # payment_methods
        /\ Rerun([Session EXCEPT !.payment_methods.value = S])

\* The user presses "Clear All Filters": the button returns True in the execution
\* the press triggers, st.experimental_rerun() stops it and queues another
\* execution with the session state as it is.
ClearAllFilters ==
    Rerun(Session)

\* Time passes to the next of the days; nothing is executed until the next
\* interaction.
Tick ==
    /\ \E i \in 1 .. Len(Todays) - 1 : now = Todays[i] /\ now' = Todays[i + 1]
    /\ UNCHANGED << file, cache, date_preset, date_range, cities, city_options,
                    products, product_options, times_of_day, time_options,
                    payment_methods, payment_options, min_date, max_date, today,
                    start_date, end_date, data, total_sales, total_orders,
                    sales_by_product, sales_by_hour_city, sales_by_tod,
                    sales_by_payment, sales_by_weekday, sales_by_month,
                    monthly_sales, max_month, charts >>

Next ==
    \/ SelectPreset
    \/ PickDateRange
    \/ SelectCities
    \/ SelectProducts
    \/ SelectTimesOfDay
    \/ SelectPaymentMethods
    \/ ClearAllFilters
    \/ Tick

Spec ==
    Init /\ [][Next]_vars

(***************************************************************************)
(* Properties.                                                             *)
(***************************************************************************)
\* The keys of a table.
Keys(table) ==
    { table[i].key : i \in DOMAIN table }

\* A row of the file passes the five predicates of the page's filter criteria.
Satisfies(r) ==
    /\ DateLE(start_date, r.Date) /\ DateLE(r.Date, end_date)
    /\ r.City \in cities
    /\ r.coffee_name \in products
    /\ r.Time_of_Day \in times_of_day
    /\ r.cash_type \in payment_methods

\* C1: the filtered set holds exactly the rows of the loaded file that pass all
\* five predicates (date within [start_date, end_date] inclusive, city, product,
\* time of day and payment method each in its selected list), in the file's
\* order, and it is empty when one of the selected lists is empty.
C1_FilterConjunction ==
    /\ data.rows = SelectSeq(file, Satisfies)
    /\ \A i \in DOMAIN data.rows : \E j \in DOMAIN file : data.rows[i] = file[j]
    /\ ( cities = {} \/ products = {} \/ times_of_day = {} \/ payment_methods = {} )
         => data.rows = << >>

\* C1 witness: under a preset other than the default, with one city deselected,
\* some rows pass and some do not.
C1_Witness ==
    /\ date_preset = "This quarter"
    /\ cities # city_options
    /\ data.rows # << >>
    /\ Len(data.rows) < Len(file)

\* C2: for each per-category aggregation shown, the per-group totals sum to the
\* Total Sales metric of the filtered set, rows with a weekday or month name
\* outside the map included.
C2_GroupTotalsPreserved ==
    /\ NanSum(sales_by_product) = total_sales
    /\ NanSum(sales_by_hour_city) = total_sales
    /\ NanSum(sales_by_tod) = total_sales
    /\ NanSum(sales_by_payment) = total_sales
    /\ NanSum(sales_by_weekday) = total_sales
    /\ NanSum(sales_by_month) = total_sales

\* C3: the weekday, month and time-of-day tables have 7, 12 and 4 rows, one per
\* canonical category, and a category without a matching record has the value
\* zero.
C3_CanonicalRowCounts ==
    /\ Len(sales_by_weekday) = 7
    /\ Len(sales_by_month) = 12
    /\ Len(sales_by_tod) = 4
    /\ Keys(sales_by_tod) = { "Morning", "Afternoon", "Evening", "Night" }
    /\ \A i \in DOMAIN sales_by_weekday : ~sales_by_weekday[i].na
    /\ \A i \in DOMAIN sales_by_month : ~sales_by_month[i].na
    /\ \A i \in DOMAIN sales_by_tod : ~sales_by_tod[i].na

\* The calendar, stated apart from the ordinal arithmetic of the window.
DaysInMonth(y, m) ==
    IF m = 2
    THEN IF (y % 4 = 0 /\ y % 100 # 0) \/ y % 400 = 0 THEN 29 ELSE 28
    ELSE IF m \in { 4, 6, 9, 11 } THEN 30 ELSE 31

PrevDay(d) ==
    IF d.day > 1 THEN D(d.year, d.month, d.day - 1)
    ELSE IF d.month > 1 THEN D(d.year, d.month - 1, DaysInMonth(d.year, d.month - 1))
    ELSE D(d.year - 1, 12, 31)

RECURSIVE DaysBefore(_, _)
DaysBefore(d, n) ==
    IF n = 0 THEN d ELSE DaysBefore(PrevDay(d), n - 1)

\* C4: for every reference date and every preset other than "Custom" the window
\* is the one the preset names: the last 7 or 30 days up to today, the month,
\* calendar quarter (starting in month 1, 4, 7 or 10) or year of today up to
\* today, or the whole previous year; for 2025-06-15 these are the dates of the
\* specification's example.
C4_PresetWindows ==
    /\ date_preset = "Last 7 days" =>
         start_date = DaysBefore(today, 7) /\ end_date = today
    /\ date_preset = "Last 30 days" =>
         start_date = DaysBefore(today, 30) /\ end_date = today
    /\ date_preset = "This month" =>
         start_date = D(today.year, today.month, 1) /\ end_date = today
    /\ date_preset = "This quarter" =>
         /\ start_date.year = today.year /\ start_date.day = 1
         /\ start_date.month \in { 1, 4, 7, 10 }
         /\ start_date.month <= today.month /\ today.month <= start_date.month + 2
         /\ end_date = today
    /\ date_preset = "This year" =>
         start_date = D(today.year, 1, 1) /\ end_date = today
    /\ date_preset = "Previous year" =>
         start_date = D(today.year - 1, 1, 1) /\ end_date = D(today.year - 1, 12, 31)
    /\ today = D(2025, 6, 15) =>
         /\ date_preset = "This month" => start_date = D(2025, 6, 1)
         /\ date_preset = "This quarter" => start_date = D(2025, 4, 1)
         /\ date_preset = "Previous year" =>
              start_date = D(2024, 1, 1) /\ end_date = D(2024, 12, 31)
         /\ date_preset = "Last 7 days" => start_date = D(2025, 6, 8)

\* C4 witness: the quarter's window in the last quarter of a year.
C4_Witness ==
    /\ date_preset = "This quarter"
    /\ today = D(2025, 11, 30)
    /\ start_date = D(2025, 10, 1)

\* The charts drawn from the filtered set.
FilteredCharts ==
    { charts.product, charts.hour, charts.tod, charts.payment, charts.weekday,
      charts.month }

\* C5: when the filtered set is empty every chart drawn from it shows the no-data
\* message or is not drawn, no chart step raises, and the no-data message is
\* shown only when the filtered set is empty.
C5_EmptyResultSignalled ==
    /\ data.rows = << >> => FilteredCharts \subseteq { "info", "none" }
    /\ "exception" \notin FilteredCharts
    /\ "info" \in FilteredCharts => data.rows = << >>

\* C6: whatever the interactions, a call of load_data() that hits the cache
\* returns a frame equal to a fresh parse of the file: the columns the script
\* adds to its data and the filters leave the cached frame as it was.
C6_CacheEqualsFreshParse ==
    cache_data(<< cache >>, file) = load_data_body(file)

\* C6 witness: the script has added its columns to data and filters have removed
\* rows from it.
C6_Witness ==
    /\ { "year", "Weekday_full", "short_months" } \subseteq data.cols
    /\ cities # city_options
    /\ Len(data.rows) < Len(file)
    /\ date_preset # "This year"

\* The place of a time of day in the fixed order; NaN comes last.
TimeRank(k) ==
    CASE k = "Morning" -> 1
      [] k = "Afternoon" -> 2
      [] k = "Evening" -> 3
      [] k = "Night" -> 4
      [] OTHER -> 5

\* C7: the product table is in descending order of its totals, the weekday table
\* in the order Monday..Sunday, the month table in the order Jan..Dec, and the
\* rows of the time-of-day table in the order Morning, Afternoon, Evening, Night
\* whatever their totals.
C7_TableOrders ==
    /\ \A i \in 1 .. Len(sales_by_product) - 1 :
         sales_by_product[i].total_sales >= sales_by_product[i + 1].total_sales
    /\ [ i \in DOMAIN sales_by_weekday |-> sales_by_weekday[i].key ]
         = << "Monday", "Tuesday", "Wednesday", "Thursday", "Friday", "Saturday",
              "Sunday" >>
    /\ [ i \in DOMAIN sales_by_month |-> sales_by_month[i].key ]
         = << "Jan", "Feb", "Mar", "Apr", "May", "Jun", "Jul", "Aug", "Sep", "Oct",
              "Nov", "Dec" >>
    /\ \A i \in 1 .. Len(sales_by_tod) - 1 :
         /\ TimeRank(sales_by_tod[i].key) <= TimeRank(sales_by_tod[i + 1].key)
         /\ TimeRank(sales_by_tod[i].key) = TimeRank(sales_by_tod[i + 1].key)
              => sales_by_tod[i].key = "NaN"

\* C7 witness: two products with different totals, and two times of day whose
\* fixed order is neither their string order nor the order of their totals.
C7_Witness ==
    /\ Len(sales_by_product) = 2
    /\ sales_by_product[1].total_sales > sales_by_product[2].total_sales
    /\ Len(sales_by_tod) = 2
    /\ sales_by_tod[1].key = "Morning" /\ sales_by_tod[2].key = "Evening"
    /\ sales_by_tod[1].total_sales > sales_by_tod[2].total_sales

\* C8: under "Custom" the window applied lies within the first and last date of
\* the loaded data and its start is not after its end; with only one bound
\* picked it is the whole range of the data.
C8_CustomWindowWithinData ==
    date_preset = "Custom" =>
        /\ \E i \in DOMAIN file : DateLE(file[i].Date, start_date)
        /\ \E i \in DOMAIN file : DateLE(end_date, file[i].Date)
        /\ DateLE(start_date, end_date)
        /\ Len(date_range) # 2 =>
             /\ \A i \in DOMAIN file : DateLE(start_date, file[i].Date)
             /\ \A i \in DOMAIN file : DateLE(file[i].Date, end_date)

\* C8 witness: the user has picked both bounds, narrower than the data's range.
C8_Witness ==
    /\ date_preset = "Custom"
    /\ Len(date_range) = 2
    /\ start_date # min_date
    /\ end_date # max_date

\* C9: in the page that follows a press of "Clear All Filters" the preset is
\* "This year" and every value of the four multiselects is selected.
C9_ClearResetsFilters ==
    [][ ClearAllFilters =>
          /\ date_preset' = "This year"
          /\ cities' = city_options'
          /\ products' = product_options'
          /\ times_of_day' = time_options'
          /\ payment_methods' = payment_options' ]_vars

\* C10: in every filter state the monthly revenue trend table holds one row per
\* month of the unfiltered file, with the total of all the file's rows of that
\* month, the highlighted month is one with the largest such total, and the
\* chart is drawn.
C10_MonthlyTrendUnfiltered ==
    /\ Keys(monthly_sales) = { << file[i].Date.year, file[i].Date.month >> : i \in DOMAIN file }
    /\ Len(monthly_sales) = Cardinality(Keys(monthly_sales))
    /\ \A i \in DOMAIN monthly_sales :
         monthly_sales[i].total_sales =
           SumSales(SelectSeq(file, LAMBDA r :
                      << r.Date.year, r.Date.month >> = monthly_sales[i].key))
    /\ \E i \in DOMAIN monthly_sales :
         /\ monthly_sales[i].key = max_month
         /\ \A j \in DOMAIN monthly_sales :
              monthly_sales[j].total_sales <= monthly_sales[i].total_sales
    /\ charts.monthly = "plotly_chart"

\* C10 witness: a selection has emptied the filtered set of a file with sales in
\* two months, and the trend still shows both.
C10_Witness ==
    /\ data.rows = << >>
    /\ cities = {} /\ city_options # {}
    /\ Len(monthly_sales) = 2

=============================================================================
